---- MODULE Spec2Model ----
(***************************************************************************)
(* Message delivery orchestration of imeSSagE: the message lifecycle state *)
(* machine (server/models/routing_state_machine.py) and the Redis-backed   *)
(* worker engine (server/workers/redis_workers.py).                        *)
(*                                                                         *)
(* Spec      the Redis engine: enqueue, send workers, confirmation         *)
(*           workers, lock TTL expiry, message expiry, sweeper, crashes.   *)
(* FairSpec  the Redis engine without message expiry and crashes, every    *)
(*           worker loop weakly fair (each is a `while True` loop).        *)
(* LibSpec   the in-memory state machine functions applied by a client to  *)
(*           one Message object.                                           *)
(* ApiSpec   the Redis engine fed by POST /send.                           *)
(* LaneSpec  several messages on the send list.                            *)
(* SelectorSpec  the channel selection functions applied to one contact.   *)
(* RouteSpec process_message and POST /send for one contact.               *)
(* NewSpec   the Message constructor.                                      *)
(* StopSpec  the Redis engine with cancellation of the worker tasks.       *)
(* DeferSpec, RerouteSpec  the Redis engine with a client that stores a    *)
(*           retry time, or reroutes a message with fallback_worker.       *)
(* RecheckSpec  the Redis engine with ids pushed onto queue:confirm again. *)
(*                                                                         *)
(* Every Redis command is one atomic step; the Python code between two     *)
(* commands of a worker belongs to the step of the command before it.      *)
(* Redis is assumed to answer every command (no connection errors).        *)
(***************************************************************************)
EXTENDS Integers, Sequences, FiniteSets, TLC

\* ---------------------------------------------------------------- bounds
NumMsgs == 1
NumSendWorkers == 2
NumConfirmWorkers == 1
MaxCrashes == 1
MaxLibCalls == 4
MaxQueued == 3

MsgIds == 1..NumMsgs
SendWorkers == 1..NumSendWorkers
ConfirmWorkers == (NumSendWorkers + 1)..(NumSendWorkers + NumConfirmWorkers)
Workers == SendWorkers \cup ConfirmWorkers

\* absent value: a missing hash field, Python None, no message in flight
Nil == "nil"
NoMsg == 0

\* ------------------------------------------------------- message model
DRAFTED == "drafted"
ROUTING == "routing"
BLOCKED == "blocked"
QUEUED == "queued"
SENDING == "sending"
SENT == "sent"
CONFIRMED == "confirmed"
FAILED == "failed"
FALLBACK == "fallback"

MessageState == {DRAFTED, ROUTING, BLOCKED, QUEUED, SENDING, SENT,
                 CONFIRMED, FAILED, FALLBACK}

Events == {"route", "blocked", "ok", "send", "success", "error", "confirm",
           "timeout", "retry", "fallback", "reroute"}

\* channels send_via_channel knows; "fax" stands for any other channel tag
KnownChannels == {"rcs", "imessage", "email", "sms"}
\* the calls of enqueue_message tried: <<channel, fallback_channels, priority>>
EnqueueCalls == { <<"rcs", <<"email">>, 1>>,
                  <<"fax", <<"email">>, 2>>,
                  <<"fax", << >>, 1>> }

\* x in a Python list
InSeq(list, x) == \E i \in 1..Len(list) : list[i] = x

\* time.time(): an abstract timestamp
Now == "ts"

\* Message.__init__: self.max_attempts = 3
DefaultMaxAttempts == 3

\* the recipient and the text of the messages tried, and the empty dict
AnyTo == "to"
AnyText == "text"
NoMetadata == "{}"

\* mutant: a constructor that counts the creation as an attempt
MessageOfCountsAttempt(id, to, text, channel) ==
    [ id |-> id,
      to |-> to,
      text |-> text,
      state |-> DRAFTED,
      channel |-> channel,
      attempts |-> 1,
      max_attempts |-> DefaultMaxAttempts,
      fallback_channels |-> << >>,
      last_error |-> Nil,
      sent_at |-> Nil,
      confirmed_at |-> Nil,
      priority |-> 1,
      expires_at |-> Nil,
      retry_after |-> Nil,
      metadata |-> NoMetadata ]

\* Message.__init__
MessageOf(id, to, text, channel) ==
    [ id |-> id,
      to |-> to,
      text |-> text,
      state |-> DRAFTED,
      channel |-> channel,
      attempts |-> 0,
      max_attempts |-> DefaultMaxAttempts,
      fallback_channels |-> << >>,
      last_error |-> Nil,
      sent_at |-> Nil,
      confirmed_at |-> Nil,
      priority |-> 1,
      expires_at |-> Nil,
      retry_after |-> Nil,
      metadata |-> NoMetadata ]

\* a Message whose id, recipient and text play no part
Message(channel) == MessageOf(NoMsg, Nil, Nil, channel)

\* mutant: the table with a way out of BLOCKED
transition_table_unblock ==
    (DRAFTED :> ("route" :> ROUTING)) @@
    (ROUTING :> (("blocked" :> BLOCKED) @@ ("ok" :> QUEUED))) @@
    (BLOCKED :> ("retry" :> QUEUED)) @@
    (QUEUED :> ("send" :> SENDING)) @@
    (SENDING :> (("success" :> SENT) @@ ("error" :> FAILED))) @@
    (SENT :> (("confirm" :> CONFIRMED) @@ ("timeout" :> CONFIRMED))) @@
    (CONFIRMED :> << >>) @@
    (FAILED :> (("retry" :> QUEUED) @@ ("fallback" :> FALLBACK))) @@
    (FALLBACK :> ("reroute" :> QUEUED))

\* mutant: the table with a confirmation timeout that fails the message
transition_table_pessimistic ==
    (DRAFTED :> ("route" :> ROUTING)) @@
    (ROUTING :> (("blocked" :> BLOCKED) @@ ("ok" :> QUEUED))) @@
    (BLOCKED :> << >>) @@
    (QUEUED :> ("send" :> SENDING)) @@
    (SENDING :> (("success" :> SENT) @@ ("error" :> FAILED))) @@
    (SENT :> (("confirm" :> CONFIRMED) @@ ("timeout" :> FAILED))) @@
    (CONFIRMED :> << >>) @@
    (FAILED :> (("retry" :> QUEUED) @@ ("fallback" :> FALLBACK))) @@
    (FALLBACK :> ("reroute" :> QUEUED))

\* mutant: the table with a confirmation accepted while the send is under way
transition_table_early_confirm ==
    (DRAFTED :> ("route" :> ROUTING)) @@
    (ROUTING :> (("blocked" :> BLOCKED) @@ ("ok" :> QUEUED))) @@
    (BLOCKED :> << >>) @@
    (QUEUED :> ("send" :> SENDING)) @@
    (SENDING :> (("success" :> SENT) @@ ("error" :> FAILED) @@
                 ("confirm" :> CONFIRMED))) @@
    (SENT :> (("confirm" :> CONFIRMED) @@ ("timeout" :> CONFIRMED))) @@
    (CONFIRMED :> << >>) @@
    (FAILED :> (("retry" :> QUEUED) @@ ("fallback" :> FALLBACK))) @@
    (FALLBACK :> ("reroute" :> QUEUED))

\* the dict literal of transition(): state -> (event -> next state)
transition_table ==
    (DRAFTED :> ("route" :> ROUTING)) @@
    (ROUTING :> (("blocked" :> BLOCKED) @@ ("ok" :> QUEUED))) @@
    (BLOCKED :> << >>) @@
    (QUEUED :> ("send" :> SENDING)) @@
    (SENDING :> (("success" :> SENT) @@ ("error" :> FAILED))) @@
    (SENT :> (("confirm" :> CONFIRMED) @@ ("timeout" :> CONFIRMED))) @@
    (CONFIRMED :> << >>) @@
    (FAILED :> (("retry" :> QUEUED) @@ ("fallback" :> FALLBACK))) @@
    (FALLBACK :> ("reroute" :> QUEUED))

\* transition(msg, event): the value returned
TransitionOk(msg, event) ==
    /\ msg.state \in DOMAIN transition_table
    /\ event \in DOMAIN transition_table[msg.state]

\* mutant: a transition that notes a rejected event in last_error
TransitionMsgNotesRejection(msg, event) ==
    IF TransitionOk(msg, event)
    THEN LET to == transition_table[msg.state][event]
         IN [msg EXCEPT !.state = to,
                        !.sent_at = IF to = SENT THEN Now ELSE @,
                        !.confirmed_at = IF to = CONFIRMED THEN Now ELSE @]
    ELSE [msg EXCEPT !.last_error = "err"]

\* transition(msg, event): the message afterwards
TransitionMsg(msg, event) ==
    IF TransitionOk(msg, event)
    THEN LET to == transition_table[msg.state][event]
         IN [msg EXCEPT !.state = to,
                        !.sent_at = IF to = SENT THEN Now ELSE @,
                        !.confirmed_at = IF to = CONFIRMED THEN Now ELSE @]
    ELSE msg

\* send_via_channel(msg) raises: no channel, or a channel it does not know;
\* adapterOk is the outcome of the external channel adapter behind it
SendRaises(msg, adapterOk) ==
    \/ msg.channel = Nil
    \/ msg.channel = ""
    \/ msg.channel \notin KnownChannels
    \/ ~adapterOk

\* ------------------------------------------------------ Contact Directory
\* ChannelPreference
ChannelPreference == {"sms", "rcs", "email", "imessage"}

\* Contact: phone and email stand for "a value is there"; the other fields
\* of the dataclass play no part in the choice of a channel
Contacts ==
    [ preferred_channel : ChannelPreference \cup {Nil},
      imessage_capable : BOOLEAN,
      rcs_capable : BOOLEAN,
      email : BOOLEAN,
      phone : BOOLEAN,
      opt_in : BOOLEAN,
      blocked : BOOLEAN ]

\* None where a Contact is expected
NoContact == [ found |-> FALSE ]
\* no response yet, no selection yet
NoResponse == [ status |-> "none" ]
NoSelection == [ op |-> "none" ]

\* ContactManager.get_preferred_channel
get_preferred_channel(c) ==
    IF c.preferred_channel # Nil THEN c.preferred_channel
    ELSE IF c.imessage_capable THEN "imessage"
    ELSE IF c.rcs_capable THEN "rcs"
    ELSE IF c.email THEN "email"
    ELSE IF c.phone THEN "sms"
    ELSE "sms"

\* `if cond and ch not in channels: channels.append(ch)`
AppendNew(channels, cond, ch) ==
    IF cond /\ ~InSeq(channels, ch) THEN Append(channels, ch) ELSE channels

\* ContactManager.get_fallback_channels
get_fallback_channels(c) ==
    LET c0 == AppendNew(<< >>, c.preferred_channel # Nil, c.preferred_channel)
        c1 == AppendNew(c0, c.imessage_capable, "imessage")
        c2 == AppendNew(c1, c.rcs_capable, "rcs")
        c3 == AppendNew(c2, c.email, "email")
    IN AppendNew(c3, c.phone, "sms")

\* get_best_channel_for_contact
get_best_channel_for_contact(c) ==
    IF c = NoContact THEN "sms" ELSE get_preferred_channel(c)

\* get_fallback_channels_for_contact
get_fallback_channels_for_contact(c) ==
    IF c = NoContact THEN <<"sms", "email">> ELSE get_fallback_channels(c)

\* is_contact_opted_in
is_contact_opted_in(c) ==
    IF c = NoContact THEN FALSE ELSE c.opt_in /\ ~c.blocked

\* hasattr(contact, name) and contact.<name>
Probe(c, name) == name \in DOMAIN c /\ c[name]

\* choose_channel: the attributes it probes are imessage, rcs, email, phone
choose_channel(c) ==
    IF c = NoContact THEN "sms"
    ELSE IF Probe(c, "imessage") THEN "imessage"
    ELSE IF Probe(c, "rcs") THEN "rcs"
    ELSE IF Probe(c, "email") THEN "email"
    ELSE IF Probe(c, "phone") THEN "sms"
    ELSE Nil

\* mutant: a safety check that does not look at opt_in
is_blocked_ignores_opt_in(c) ==
    IF c = NoContact THEN FALSE ELSE Probe(c, "blocked")

\* is_blocked
is_blocked(c) ==
    IF c = NoContact THEN FALSE
    ELSE IF "opt_in" \in DOMAIN c /\ ~c.opt_in THEN TRUE
    ELSE Probe(c, "blocked")

\* ---------------------------------------------------------- Redis store
\* a hash msg:<id> is a function from the fields it has to their values;
\* a key that does not exist is the hash without fields
NoHash == << >>

\* HSET key mapping: sets the given fields, creates the hash when missing
HSet(hash, mapping) == mapping @@ hash

\* ",".join(fallback_channels): the text as a sequence of pieces, "," the
\* separator piece; an empty channel name contributes no piece
RECURSIVE JoinComma(_)
JoinComma(chs) ==
    IF chs = << >> THEN << >>
    ELSE LET first == IF Head(chs) = "" THEN << >> ELSE <<Head(chs)>>
         IN IF Len(chs) = 1 THEN first
            ELSE first \o <<",">> \o JoinComma(Tail(chs))

\* text.split(','): the names between the separators
RECURSIVE SplitComma(_, _)
SplitComma(text, cur) ==
    IF text = << >> THEN <<cur>>
    ELSE IF Head(text) = "," THEN <<cur>> \o SplitComma(Tail(text), "")
    ELSE SplitComma(Tail(text), Head(text))

\* x or ""
OrEmpty(x) == IF x = Nil THEN "" ELSE x

\* the mapping enqueue_message stores (created_at is written once and never
\* read)
EnqueueHash(id, channel, fallback_channels, priority) ==
    [ id |-> id,
      to |-> AnyTo,
      text |-> AnyText,
      channel |-> channel,
      state |-> QUEUED,
      attempts |-> 0,
      fallback_channels |-> JoinComma(fallback_channels),
      priority |-> priority,
      expires_at |-> "in24h" ]

\* mutant: an update_message that does not write the state
UpdateMappingWithoutState(msg) ==
    [ attempts |-> msg.attempts,
      channel |-> OrEmpty(msg.channel),
      last_error |-> OrEmpty(msg.last_error),
      sent_at |-> OrEmpty(msg.sent_at),
      confirmed_at |-> OrEmpty(msg.confirmed_at),
      retry_after |-> OrEmpty(msg.retry_after) ]

\* the mapping update_message writes
UpdateMapping(msg) ==
    [ state |-> msg.state,
      attempts |-> msg.attempts,
      channel |-> OrEmpty(msg.channel),
      last_error |-> OrEmpty(msg.last_error),
      sent_at |-> OrEmpty(msg.sent_at),
      confirmed_at |-> OrEmpty(msg.confirmed_at),
      retry_after |-> OrEmpty(msg.retry_after) ]

Has(data, field) == field \in DOMAIN data

\* get_message: the hash is there and has an id
GetHasRecord(data) == DOMAIN data # {} /\ Has(data, "id")

\* mutant: a get_message that does not compare expires_at with the clock
GetExpiredNever(data, pastDeadline) == FALSE

\* get_message: datetime.now() > expires_at
GetExpired(data, pastDeadline) == Has(data, "expires_at") /\ pastDeadline

\* get_message: a Message is returned
GetFound(data, pastDeadline) ==
    GetHasRecord(data) /\ ~GetExpired(data, pastDeadline)

\* get_message: the record is deleted
GetDeletes(data, pastDeadline) ==
    GetHasRecord(data) /\ GetExpired(data, pastDeadline)

\* get_message: the Message built from the hash; sent_at, confirmed_at and
\* retry_after are not read back
GetMessage(data) ==
    LET m0 == MessageOf(data.id, data.to, data.text,
                        IF Has(data, "channel") THEN data.channel ELSE Nil)
        m1 == IF Has(data, "state")
              THEN [m0 EXCEPT !.state = IF data.state \in MessageState
                                        THEN data.state ELSE QUEUED]
              ELSE m0
        m2 == IF Has(data, "attempts")
              THEN [m1 EXCEPT !.attempts = data.attempts] ELSE m1
        m3 == IF Has(data, "fallback_channels") /\ data.fallback_channels # << >>
              THEN [m2 EXCEPT !.fallback_channels =
                                  SplitComma(data.fallback_channels, "")]
              ELSE m2
        m4 == IF Has(data, "last_error")
              THEN [m3 EXCEPT !.last_error = data.last_error] ELSE m3
        m5 == IF Has(data, "priority")
              THEN [m4 EXCEPT !.priority = data.priority] ELSE m4
    IN IF Has(data, "expires_at")
       THEN [m5 EXCEPT !.expires_at = data.expires_at] ELSE m5

\* ------------------------------------------------------------ Redis lists
\* a list is a sequence, index 1 the left end
LPush(list, x) == <<x>> \o list
RPush(list, x) == Append(list, x)
\* BRPOP takes the right end
RPopValue(list) == list[Len(list)]
\* mutant: a pop that reads the right end and leaves it on the list
RPopRestKeepsValue(list) == list
RPopRest(list) == SubSeq(list, 1, Len(list) - 1)
InList(list, x) == \E i \in 1..Len(list) : list[i] = x

\* ------------------------------------------------------------- variables
VARIABLES
    store,         \* msg:<id> hashes, by message id
    qsend,         \* the list queue:send
    qconfirm,      \* the list queue:confirm
    locks,         \* ids whose key lock:msg:<id> exists
    issued,        \* ids enqueue_message has generated
    pastDeadline,  \* ids for which datetime.now() > the enqueued expires_at
    expiredInFlight, \* history: ids whose lock ran out during processing
    pc,            \* where each worker stands in its loop
    wid,           \* msg_id of each worker
    wmsg,          \* msg of each worker
    crashes,       \* worker processes killed so far
    lmsg,          \* LibSpec: the client's Message object
    lop,           \* LibSpec: the function last called, Nil before the first
    larg,          \* LibSpec: the event or adapter outcome of the last call
    lret,          \* LibSpec: what the last call returned
    lcalls,        \* LibSpec: calls made so far
    resp,          \* ApiSpec: the response of the last POST /send
    contact,       \* SelectorSpec: the contact the selector is asked about
    sel            \* SelectorSpec: the call made last and its result

envVars == <<issued, pastDeadline, expiredInFlight>>
redisVars == <<store, qsend, qconfirm, locks, issued, pastDeadline,
               expiredInFlight>>
workerVars == <<pc, wid, wmsg, crashes>>
machineVars == <<lmsg, lop, larg, lret, lcalls>>
apiVars == <<resp, contact, sel>>
libVars == <<lmsg, lop, larg, lret, lcalls, resp, contact, sel>>
vars == <<store, qsend, qconfirm, locks, issued, pastDeadline, expiredInFlight,
          pc, wid, wmsg, crashes, lmsg, lop, larg, lret, lcalls,
          resp, contact, sel>>

\* program positions between acquire_lock returning True and release_lock
SendLocked == {"get", "persist_sending", "send", "persist_sent",
               "persist_final", "push_confirm", "release"}
ConfirmLocked == {"get", "check", "release"}

\* the worker is processing its message: it is inside the try block
Processing(w) ==
    pc[w] \in (IF w \in SendWorkers THEN SendLocked ELSE ConfirmLocked)

RedisInit ==
    /\ store = [m \in MsgIds |-> NoHash]
    /\ qsend = << >>
    /\ qconfirm = << >>
    /\ locks = {}
    /\ issued = {}
    /\ pastDeadline = {}
    /\ expiredInFlight = {}
    /\ pc = [w \in Workers |-> "poll"]
    /\ wid = [w \in Workers |-> NoMsg]
    /\ wmsg = [w \in Workers |-> Message(Nil)]
    /\ crashes = 0

\* no request was answered, no contact looked at
ApiIdle ==
    /\ resp = NoResponse
    /\ contact = NoContact
    /\ sel = NoSelection

LibIdle ==
    /\ lmsg = Message(Nil)
    /\ lop = Nil
    /\ larg = Nil
    /\ lret = FALSE
    /\ lcalls = 0
    /\ ApiIdle

\* --------------------------------------------------------------- enqueue
\* enqueue_message: a fresh uuid, then HSET and LPUSH/RPUSH in one pipeline
EnqueueMessage(id, channel, fallback_channels, priority) ==
    /\ id \notin issued
    /\ issued' = issued \cup {id}
    /\ store' = [store EXCEPT ![id] =
                    HSet(@, EnqueueHash(id, channel, fallback_channels, priority))]
    /\ qsend' = IF priority > 1 THEN LPush(qsend, id) ELSE RPush(qsend, id)
    /\ UNCHANGED <<qconfirm, locks, pastDeadline, expiredInFlight>>

\* a direct call of enqueue_message
Enqueue(id, channel, fallback_channels, priority) ==
    /\ EnqueueMessage(id, channel, fallback_channels, priority)
    /\ UNCHANGED workerVars
    /\ UNCHANGED libVars

\* ------------------------------------------------------------ Lock Manager
\* mutants: an acquire that does not test the key, one that does not set it
AcquiredWithoutTest(held, id) == TRUE
AcquireLockWithoutSet(held, id) == held

\* acquire_lock: SET key "1" EX ttl NX
AcquireLock(held, id) == IF id \in held THEN held ELSE held \cup {id}
Acquired(held, id) == id \notin held

\* mutant: a release that leaves the key in place
ReleaseLockKeepsKey(held, id) == held

\* release_lock: DEL key
ReleaseLock(held, id) == held \ {id}

\* the TTL of a lock key runs out
LockExpire(id) ==
    /\ id \in locks
    /\ locks' = locks \ {id}
    /\ expiredInFlight' = IF \E w \in Workers : Processing(w) /\ wid[w] = id
                          THEN expiredInFlight \cup {id} ELSE expiredInFlight
    /\ UNCHANGED <<store, qsend, qconfirm, issued, pastDeadline>>
    /\ UNCHANGED workerVars
    /\ UNCHANGED libVars

\* 24 hours pass after the message was enqueued
DeadlinePasses(id) ==
    /\ id \in issued
    /\ id \notin pastDeadline
    /\ pastDeadline' = pastDeadline \cup {id}
    /\ UNCHANGED <<store, qsend, qconfirm, locks, issued, expiredInFlight>>
    /\ UNCHANGED workerVars
    /\ UNCHANGED libVars

\* mutant: a sweeper that leaves the records of locked ids alone
SweepUnlessLocked(id) ==
    /\ store[id] # NoHash
    /\ Has(store[id], "expires_at")
    /\ id \in pastDeadline
    /\ id \notin locks
    /\ store' = [store EXCEPT ![id] = NoHash]
    /\ UNCHANGED <<qsend, qconfirm, locks, envVars>>
    /\ UNCHANGED workerVars
    /\ UNCHANGED libVars

\* cleanup_expired_messages, one key of its scan: HGETALL, then DEL when the
\* hash has an expires_at that has passed
Sweep(id) ==
    /\ store[id] # NoHash
    /\ Has(store[id], "expires_at")
    /\ id \in pastDeadline
    /\ store' = [store EXCEPT ![id] = NoHash]
    /\ UNCHANGED <<qsend, qconfirm, locks, envVars>>
    /\ UNCHANGED workerVars
    /\ UNCHANGED libVars

\* ------------------------------------------------------------ send worker
\* update_message calls made one after the other on one hash
RECURSIVE ApplyUpdates(_, _)
ApplyUpdates(hash, msgs) ==
    IF msgs = << >> THEN hash
    ELSE ApplyUpdates(HSet(hash, UpdateMapping(Head(msgs))), Tail(msgs))

\* fallback_worker(msg): the message afterwards, the update_message calls it
\* made and whether it pushed the id onto queue:send
FallbackWorker(msg) ==
    IF msg.fallback_channels = << >>
    THEN LET failed == [msg EXCEPT !.state = FAILED]
         IN [msg |-> failed, updates |-> <<failed>>, requeue |-> FALSE]
    ELSE LET next == [msg EXCEPT !.channel = Head(msg.fallback_channels),
                                 !.fallback_channels = Tail(msg.fallback_channels),
                                 !.attempts = 0]
         IN IF TransitionOk(next, "reroute")
            THEN LET routed == TransitionMsg(next, "reroute")
                 IN [msg |-> routed, updates |-> <<routed>>, requeue |-> TRUE]
            ELSE [msg |-> next, updates |-> << >>, requeue |-> FALSE]

\* send_worker, the except branch of the send (lines 254-276): the message
\* afterwards, the update_message calls made, whether the id was pushed onto
\* queue:send, and whether the branch raised (time is not imported in
\* redis_workers.py, so time.time() raises NameError)
SendFailure(msg) ==
    LET m1 == [msg EXCEPT !.last_error = "err", !.attempts = @ + 1]
    IN IF m1.attempts < m1.max_attempts
       THEN IF TransitionOk(m1, "retry")
            THEN [msg |-> TransitionMsg(m1, "retry"), updates |-> << >>,
                  requeue |-> FALSE, raised |-> TRUE]
            ELSE [msg |-> m1, updates |-> << >>,
                  requeue |-> FALSE, raised |-> FALSE]
       ELSE IF TransitionOk(m1, "fallback")
            THEN LET m2 == TransitionMsg(m1, "fallback")
                 IN IF m2.fallback_channels # << >>
                    THEN LET fb == FallbackWorker(m2)
                         IN [msg |-> fb.msg, updates |-> <<m2>> \o fb.updates,
                             requeue |-> fb.requeue, raised |-> FALSE]
                    ELSE LET m3 == [m2 EXCEPT !.state = FAILED]
                         IN [msg |-> m3, updates |-> <<m2, m3>>,
                             requeue |-> FALSE, raised |-> FALSE]
            ELSE [msg |-> m1, updates |-> << >>,
                  requeue |-> FALSE, raised |-> FALSE]

\* BRPOP queue:send returned an id
SendPoll(w) ==
    /\ pc[w] = "poll"
    /\ qsend # << >>
    /\ wid' = [wid EXCEPT ![w] = RPopValue(qsend)]
    /\ qsend' = RPopRest(qsend)
    /\ pc' = [pc EXCEPT ![w] = "lock"]
    /\ UNCHANGED <<store, qconfirm, locks, envVars, wmsg, crashes>>
    /\ UNCHANGED libVars

\* acquire_lock(client, lock_key, ttl=60)
SendLock(w) ==
    /\ pc[w] = "lock"
    /\ locks' = AcquireLock(locks, wid[w])
    /\ pc' = [pc EXCEPT ![w] = IF Acquired(locks, wid[w]) THEN "get" ELSE "skip"]
    /\ UNCHANGED <<store, qsend, qconfirm, envVars, wid, wmsg, crashes>>
    /\ UNCHANGED libVars

\* get_message, the retry_after test and transition(msg, "send")
SendGet(w) ==
    /\ pc[w] = "get"
    /\ LET data == store[wid[w]]
           past == wid[w] \in pastDeadline
           msg == GetMessage(data)
       IN IF ~GetFound(data, past)
          THEN /\ store' = IF GetDeletes(data, past)
                           THEN [store EXCEPT ![wid[w]] = NoHash] ELSE store
               /\ pc' = [pc EXCEPT ![w] = "release"]
               /\ UNCHANGED wmsg
          ELSE /\ UNCHANGED store
               /\ IF msg.retry_after # Nil
                  THEN \* msg.retry_after > time.time() raises NameError
                       /\ wmsg' = [wmsg EXCEPT ![w] = msg]
                       /\ pc' = [pc EXCEPT ![w] = "release"]
                  ELSE /\ wmsg' = [wmsg EXCEPT ![w] = TransitionMsg(msg, "send")]
                       /\ pc' = [pc EXCEPT ![w] =
                               IF TransitionOk(msg, "send")
                               THEN "persist_sending" ELSE "send"]
    /\ UNCHANGED <<qsend, qconfirm, locks, envVars, wid, crashes>>
    /\ UNCHANGED libVars

\* update_message after transition(msg, "send")
SendPersistSending(w) ==
    /\ pc[w] = "persist_sending"
    /\ store' = [store EXCEPT ![wid[w]] = HSet(@, UpdateMapping(wmsg[w]))]
    /\ pc' = [pc EXCEPT ![w] = "send"]
    /\ UNCHANGED <<qsend, qconfirm, locks, envVars, wid, wmsg, crashes>>
    /\ UNCHANGED libVars

\* human_delay, send_via_channel and what follows up to the next Redis command
SendAttempt(w, adapterOk) ==
    /\ pc[w] = "send"
    /\ IF ~SendRaises(wmsg[w], adapterOk)
       THEN /\ wmsg' = [wmsg EXCEPT ![w] = TransitionMsg(@, "success")]
            /\ pc' = [pc EXCEPT ![w] = IF TransitionOk(wmsg[w], "success")
                                        THEN "persist_sent" ELSE "persist_final"]
            /\ UNCHANGED <<store, qsend>>
       ELSE LET out == SendFailure(wmsg[w])
            IN /\ wmsg' = [wmsg EXCEPT ![w] = out.msg]
               /\ store' = [store EXCEPT ![wid[w]] = ApplyUpdates(@, out.updates)]
               /\ qsend' = IF out.requeue THEN LPush(qsend, wid[w]) ELSE qsend
               /\ pc' = [pc EXCEPT ![w] = IF out.raised THEN "release"
                                           ELSE "persist_final"]
    /\ UNCHANGED <<qconfirm, locks, envVars, wid, crashes>>
    /\ UNCHANGED libVars

\* update_message after transition(msg, "success")
SendPersistSent(w) ==
    /\ pc[w] = "persist_sent"
    /\ store' = [store EXCEPT ![wid[w]] = HSet(@, UpdateMapping(wmsg[w]))]
    /\ pc' = [pc EXCEPT ![w] = "persist_final"]
    /\ UNCHANGED <<qsend, qconfirm, locks, envVars, wid, wmsg, crashes>>
    /\ UNCHANGED libVars

\* update_message at the end of the try block
SendPersistFinal(w) ==
    /\ pc[w] = "persist_final"
    /\ store' = [store EXCEPT ![wid[w]] = HSet(@, UpdateMapping(wmsg[w]))]
    /\ pc' = [pc EXCEPT ![w] = IF wmsg[w].state = SENT
                                THEN "push_confirm" ELSE "release"]
    /\ UNCHANGED <<qsend, qconfirm, locks, envVars, wid, wmsg, crashes>>
    /\ UNCHANGED libVars

\* LPUSH queue:confirm
SendPushConfirm(w) ==
    /\ pc[w] = "push_confirm"
    /\ qconfirm' = LPush(qconfirm, wid[w])
    /\ pc' = [pc EXCEPT ![w] = "release"]
    /\ UNCHANGED <<store, qsend, locks, envVars, wid, wmsg, crashes>>
    /\ UNCHANGED libVars

\* finally: release_lock, then the next poll
SendRelease(w) ==
    /\ pc[w] = "release"
    /\ locks' = ReleaseLock(locks, wid[w])
    /\ pc' = [pc EXCEPT ![w] = "poll"]
    /\ wid' = [wid EXCEPT ![w] = NoMsg]
    /\ wmsg' = [wmsg EXCEPT ![w] = Message(Nil)]
    /\ UNCHANGED <<store, qsend, qconfirm, envVars, crashes>>
    /\ UNCHANGED libVars

\* ---------------------------------------------------- confirmation worker
\* BRPOP queue:confirm returned an id
ConfirmPoll(w) ==
    /\ pc[w] = "poll"
    /\ qconfirm # << >>
    /\ wid' = [wid EXCEPT ![w] = RPopValue(qconfirm)]
    /\ qconfirm' = RPopRest(qconfirm)
    /\ pc' = [pc EXCEPT ![w] = "lock"]
    /\ UNCHANGED <<store, qsend, locks, envVars, wmsg, crashes>>
    /\ UNCHANGED libVars

\* acquire_lock(client, lock_key, ttl=30)
ConfirmLock(w) ==
    /\ pc[w] = "lock"
    /\ locks' = AcquireLock(locks, wid[w])
    /\ pc' = [pc EXCEPT ![w] = IF Acquired(locks, wid[w]) THEN "get" ELSE "skip"]
    /\ UNCHANGED <<store, qsend, qconfirm, envVars, wid, wmsg, crashes>>
    /\ UNCHANGED libVars

\* get_message
ConfirmGet(w) ==
    /\ pc[w] = "get"
    /\ LET data == store[wid[w]]
           past == wid[w] \in pastDeadline
       IN IF ~GetFound(data, past)
          THEN /\ store' = IF GetDeletes(data, past)
                           THEN [store EXCEPT ![wid[w]] = NoHash] ELSE store
               /\ pc' = [pc EXCEPT ![w] = "release"]
               /\ UNCHANGED wmsg
          ELSE /\ UNCHANGED store
               /\ wmsg' = [wmsg EXCEPT ![w] = GetMessage(data)]
               /\ pc' = [pc EXCEPT ![w] = "check"]
    /\ UNCHANGED <<qsend, qconfirm, locks, envVars, wid, crashes>>
    /\ UNCHANGED libVars

\* the event the confirmation worker fires for the outcome of receipt_seen
ConfirmEvent(seen) == IF seen THEN "confirm" ELSE "timeout"

\* mutant: a confirmation pass that writes the message back whatever the
\* transition returned
ConfirmCheckAlwaysUpdates(w, seen) ==
    /\ pc[w] = "check"
    /\ wmsg' = [wmsg EXCEPT ![w] = TransitionMsg(@, ConfirmEvent(seen))]
    /\ store' = [store EXCEPT ![wid[w]] = HSet(@, UpdateMapping(wmsg'[w]))]
    /\ pc' = [pc EXCEPT ![w] = "release"]
    /\ UNCHANGED <<qsend, qconfirm, locks, envVars, wid, crashes>>
    /\ UNCHANGED libVars

\* asyncio.sleep(2), receipt_seen(msg), the transition and, when it was
\* accepted, update_message
ConfirmCheck(w, seen) ==
    /\ pc[w] = "check"
    /\ wmsg' = [wmsg EXCEPT ![w] = TransitionMsg(@, ConfirmEvent(seen))]
    /\ store' = IF TransitionOk(wmsg[w], ConfirmEvent(seen))
                THEN [store EXCEPT ![wid[w]] = HSet(@, UpdateMapping(wmsg'[w]))]
                ELSE store
    /\ pc' = [pc EXCEPT ![w] = "release"]
    /\ UNCHANGED <<qsend, qconfirm, locks, envVars, wid, crashes>>
    /\ UNCHANGED libVars

\* finally: release_lock, then the next poll
ConfirmRelease(w) ==
    /\ pc[w] = "release"
    /\ locks' = ReleaseLock(locks, wid[w])
    /\ pc' = [pc EXCEPT ![w] = "poll"]
    /\ wid' = [wid EXCEPT ![w] = NoMsg]
    /\ wmsg' = [wmsg EXCEPT ![w] = Message(Nil)]
    /\ UNCHANGED <<store, qsend, qconfirm, envVars, crashes>>
    /\ UNCHANGED libVars

\* send_worker and confirm_worker: `if not acquired: continue`. Only a
\* confirmation worker ever gets there: an id is popped from queue:send once
\* and its lock key has not been set by then
Skip(w) ==
    /\ pc[w] = "skip"
    /\ pc' = [pc EXCEPT ![w] = "poll"]
    /\ wid' = [wid EXCEPT ![w] = NoMsg]
    /\ UNCHANGED <<wmsg, crashes>>
    /\ UNCHANGED redisVars
    /\ UNCHANGED libVars

\* the worker's process is killed while it processes a message
Crash(w) ==
    /\ Processing(w)
    /\ crashes < MaxCrashes
    /\ crashes' = crashes + 1
    /\ pc' = [pc EXCEPT ![w] = "crashed"]
    /\ UNCHANGED <<wid, wmsg>>
    /\ UNCHANGED redisVars
    /\ UNCHANGED libVars

\* ---------------------------------------------------------- specifications
SendWorkerStep(w) ==
    \/ SendPoll(w)
    \/ SendLock(w)
    \/ SendGet(w)
    \/ SendPersistSending(w)
    \/ \E adapterOk \in BOOLEAN : SendAttempt(w, adapterOk)
    \/ SendPersistSent(w)
    \/ SendPersistFinal(w)
    \/ SendPushConfirm(w)
    \/ SendRelease(w)

ConfirmWorkerStep(w) ==
    \/ ConfirmPoll(w)
    \/ ConfirmLock(w)
    \/ ConfirmGet(w)
    \/ \E seen \in BOOLEAN : ConfirmCheck(w, seen)
    \/ ConfirmRelease(w)

EnqueueStep ==
    \E id \in MsgIds, call \in EnqueueCalls :
        Enqueue(id, call[1], call[2], call[3])

Init == RedisInit /\ LibIdle

Next ==
    \/ EnqueueStep
    \/ \E w \in SendWorkers : SendWorkerStep(w)
    \/ \E w \in ConfirmWorkers : ConfirmWorkerStep(w)
    \/ \E w \in Workers : Skip(w)
    \/ \E id \in MsgIds : LockExpire(id)
    \/ \E id \in MsgIds : DeadlinePasses(id)
    \/ \E id \in MsgIds : Sweep(id)
    \/ \E w \in Workers : Crash(w)

Spec == Init /\ [][Next]_vars

\* the Redis engine without message expiry and crashes; each worker is a
\* `while True` loop that the event loop keeps scheduling
FairNext ==
    \/ EnqueueStep
    \/ \E w \in SendWorkers : SendWorkerStep(w)
    \/ \E w \in ConfirmWorkers : ConfirmWorkerStep(w)
    \/ \E w \in Workers : Skip(w)
    \/ \E id \in MsgIds : LockExpire(id)

FairSpec ==
    /\ Init
    /\ [][FairNext]_vars
    /\ \A w \in SendWorkers : WF_vars(SendWorkerStep(w))
    /\ \A w \in ConfirmWorkers : WF_vars(ConfirmWorkerStep(w))
    /\ \A w \in Workers : WF_vars(Skip(w))

\* ------------------------------------------- in-memory state machine calls
\* the Message objects a client builds: a channel or none, a fallback chain
LibChannels == {Nil, "rcs", "fax"}
LibFallbacks == {<< >>, <<"email">>}

\* send_worker(msg) of routing_state_machine.py: the message afterwards
LibSendWorkerMsg(msg, adapterOk) ==
    LET m1 == TransitionMsg(msg, "send")
    IN IF ~SendRaises(m1, adapterOk)
       THEN TransitionMsg(m1, "success")
       ELSE LET m2 == [m1 EXCEPT !.last_error = "err", !.attempts = @ + 1]
            IN IF m2.attempts < m2.max_attempts
               THEN [TransitionMsg(m2, "retry") EXCEPT !.retry_after = "ts+30"]
               ELSE TransitionMsg(m2, "fallback")

\* send_worker(msg) of routing_state_machine.py: the value returned
LibSendWorkerRet(msg, adapterOk) ==
    ~SendRaises(TransitionMsg(msg, "send"), adapterOk)

\* fallback(msg): the message afterwards
LibFallbackMsg(msg) ==
    IF msg.fallback_channels = << >>
    THEN [msg EXCEPT !.state = FAILED]
    ELSE TransitionMsg([msg EXCEPT !.channel = Head(msg.fallback_channels),
                                   !.fallback_channels = Tail(msg.fallback_channels),
                                   !.attempts = 0],
                       "reroute")

\* fallback(msg): the value returned
LibFallbackRet(msg) == msg.fallback_channels # << >>

LibInit ==
    /\ RedisInit
    /\ \E channel \in LibChannels, fallback_channels \in LibFallbacks :
          lmsg = [Message(channel) EXCEPT !.fallback_channels = fallback_channels]
    /\ lop = Nil
    /\ larg = Nil
    /\ lret = FALSE
    /\ lcalls = 0
    /\ ApiIdle

LibCall(op, arg, msg, ret) ==
    /\ lcalls < MaxLibCalls
    /\ lcalls' = lcalls + 1
    /\ lop' = op
    /\ larg' = arg
    /\ lmsg' = msg
    /\ lret' = ret
    /\ UNCHANGED apiVars
    /\ UNCHANGED redisVars
    /\ UNCHANGED workerVars

\* transition(msg, event)
LibTransition(event) ==
    LibCall("transition", event, TransitionMsg(lmsg, event), TransitionOk(lmsg, event))

\* send_worker(msg)
LibSendWorker(adapterOk) ==
    LibCall("send_worker", IF adapterOk THEN "up" ELSE "down",
            LibSendWorkerMsg(lmsg, adapterOk), LibSendWorkerRet(lmsg, adapterOk))

\* fallback(msg)
LibFallback ==
    LibCall("fallback", Nil, LibFallbackMsg(lmsg), LibFallbackRet(lmsg))

LibNext ==
    \/ \E event \in Events : LibTransition(event)
    \/ \E adapterOk \in BOOLEAN : LibSendWorker(adapterOk)
    \/ LibFallback

LibSpec == LibInit /\ [][LibNext]_vars

\* ------------------------------------------------------- POST /send
\* process_message(msg, contact): the message afterwards
ProcessMessageMsg(msg, c) ==
    LET m1 == TransitionMsg(msg, "route")
        channel == choose_channel(c)
        m2 == [m1 EXCEPT !.channel = channel]
    IN IF channel = Nil THEN TransitionMsg(m1, "blocked")
       ELSE IF is_blocked(c) THEN TransitionMsg(m2, "blocked")
       ELSE TransitionMsg(m2, "ok")

\* process_message(msg, contact): the value returned
ProcessMessageRet(msg, c) == choose_channel(c) # Nil /\ ~is_blocked(c)

\* the requests tried: the recipient is a phone number; valid says whether
\* validate_message accepts the text
ApiRequests ==
    [ channel : {Nil, "rcs", "fax"},
      fallback_channels : {<< >>, <<"email">>},
      priority : {1, 2},
      email : BOOLEAN,
      valid : BOOLEAN ]

\* message.metadata = {"tags": req.tags, "source": "api"}
ApiMetadata == "{tags,source}"

\* the second uuid4() of a request is the one inside enqueue_message; this is
\* the first, the msg_id of send_message
ApiId(id) == NumMsgs + id

\* send_message: the contact it works with (a temporary one when the lookup
\* found none and the request carries an email)
ApiContact(req, found) ==
    IF found = NoContact /\ req.email
    THEN [ preferred_channel |-> Nil, imessage_capable |-> FALSE,
           rcs_capable |-> FALSE, email |-> TRUE, phone |-> TRUE,
           opt_in |-> TRUE, blocked |-> FALSE ]
    ELSE found

\* send_message: channel_to_use
ApiChannel(req, c) ==
    IF req.channel # Nil THEN req.channel
    ELSE IF c # NoContact THEN get_preferred_channel(c)
    ELSE "sms"

\* send_message: fallback_channels
ApiFallbacks(req, c) ==
    IF req.fallback_channels = << >> /\ c # NoContact
    THEN get_fallback_channels(c)
    ELSE req.fallback_channels

\* send_message: the Message object it creates
ApiMessage(req, c, id) ==
    [ MessageOf(ApiId(id), AnyTo, AnyText, ApiChannel(req, c))
        EXCEPT !.priority = req.priority, !.metadata = ApiMetadata ]

\* a response that reports a refusal
ApiRefusal(status) == [ status |-> status, success |-> FALSE ]

\* POST /send answered for a request and the contact the directory has
ApiSend(req, found, id) ==
    LET c == ApiContact(req, found)
        message == ApiMessage(req, c, id)
    IN /\ id \notin issued
       /\ IF c # NoContact /\ ~is_contact_opted_in(c)
          THEN /\ resp' = ApiRefusal("blocked")
               /\ UNCHANGED <<lmsg, redisVars>>
          ELSE IF req.channel # Nil /\ req.channel \notin ChannelPreference
          THEN \* ChannelType(req.channel) raises ValueError
               /\ resp' = ApiRefusal("error")
               /\ UNCHANGED <<lmsg, redisVars>>
          ELSE IF ~req.valid
          THEN /\ resp' = ApiRefusal("validation_failed")
               /\ UNCHANGED <<lmsg, redisVars>>
          ELSE /\ lmsg' = ProcessMessageMsg(message, c)
               /\ IF ~ProcessMessageRet(message, c) \/ lmsg'.state = BLOCKED
                  THEN /\ resp' = ApiRefusal("blocked")
                       /\ UNCHANGED redisVars
                  ELSE /\ EnqueueMessage(id, ApiChannel(req, c),
                                         ApiFallbacks(req, c), req.priority)
                       /\ resp' = [ status |-> "enqueued",
                                    success |-> TRUE,
                                    message_id |-> message.id,
                                    channel_used |-> ApiChannel(req, c) ]
       /\ UNCHANGED <<lop, larg, lret, lcalls, contact, sel>>
       /\ UNCHANGED workerVars

ApiSendStep ==
    \E req \in ApiRequests, found \in Contacts \cup {NoContact}, id \in MsgIds :
        ApiSend(req, found, id)

\* the Redis engine fed by the endpoint, without message expiry and crashes
ApiNext ==
    \/ ApiSendStep
    \/ \E w \in SendWorkers : SendWorkerStep(w)
    \/ \E w \in ConfirmWorkers : ConfirmWorkerStep(w)
    \/ \E w \in Workers : Skip(w)
    \/ \E id \in MsgIds : LockExpire(id)

ApiSpec == Init /\ [][ApiNext]_vars

\* ------------------------------------------------------- the send list
\* several messages on queue:send: ids are numbered in the order in which
\* enqueue_message is called
LaneIds == 1..MaxQueued

LaneInit ==
    /\ store = [m \in LaneIds |-> NoHash]
    /\ qsend = << >>
    /\ qconfirm = << >>
    /\ locks = {}
    /\ issued = {}
    /\ pastDeadline = {}
    /\ expiredInFlight = {}
    /\ pc = [w \in Workers |-> "poll"]
    /\ wid = [w \in Workers |-> NoMsg]
    /\ wmsg = [w \in Workers |-> Message(Nil)]
    /\ crashes = 0
    /\ LibIdle

LaneEnqueueStep ==
    \E call \in EnqueueCalls :
        /\ Cardinality(issued) < MaxQueued
        /\ Enqueue(Cardinality(issued) + 1, call[1], call[2], call[3])

LaneNext ==
    \/ LaneEnqueueStep
    \/ \E w \in SendWorkers : SendWorkerStep(w)

LaneSpec == LaneInit /\ [][LaneNext]_vars

\* ------------------------------------------------- the Channel Selector
\* a request that names neither a channel nor fallbacks
BareRequest ==
    [ channel |-> Nil, fallback_channels |-> << >>, priority |-> 1,
      email |-> FALSE, valid |-> TRUE ]

SelectorInit ==
    /\ RedisInit
    /\ lmsg = Message(Nil)
    /\ lop = Nil
    /\ larg = Nil
    /\ lret = FALSE
    /\ lcalls = 0
    /\ resp = NoResponse
    /\ contact \in Contacts \cup {NoContact}
    /\ sel = NoSelection

Selected(op, primary, fallbacks) ==
    [ op |-> op, primary |-> primary, fallbacks |-> fallbacks ]

\* get_best_channel_for_contact and get_fallback_channels_for_contact
SelectForContact ==
    /\ sel' = Selected("for_contact", get_best_channel_for_contact(contact),
                       get_fallback_channels_for_contact(contact))
    /\ UNCHANGED <<machineVars, resp, contact>>
    /\ UNCHANGED redisVars
    /\ UNCHANGED workerVars

\* send_message: channel_to_use and fallback_channels of a bare request
SelectForSend ==
    /\ sel' = Selected("send_message", ApiChannel(BareRequest, contact),
                       ApiFallbacks(BareRequest, contact))
    /\ UNCHANGED <<machineVars, resp, contact>>
    /\ UNCHANGED redisVars
    /\ UNCHANGED workerVars

\* choose_channel, which selects no fallbacks
ChooseChannel ==
    /\ sel' = Selected("choose_channel", choose_channel(contact), << >>)
    /\ UNCHANGED <<machineVars, resp, contact>>
    /\ UNCHANGED redisVars
    /\ UNCHANGED workerVars

SelectorNext ==
    \/ SelectForContact
    \/ SelectForSend
    \/ ChooseChannel

SelectorSpec == SelectorInit /\ [][SelectorNext]_vars

\* ------------------------------------------------------- new messages
\* the arguments of Message(id, to, text, channel) tried
NewIds == MsgIds \cup {NoMsg, ApiId(1)}
NewTos == {"", "+15550100", "a@b.c"}
NewTexts == {"", "hi", AnyText}
NewChannels == KnownChannels \cup {Nil, "fax"}

\* msg = Message(id, to, text, channel)
NewMessage(id, to, text, channel) ==
    /\ lmsg' = MessageOf(id, to, text, channel)
    /\ lop' = "Message"
    /\ UNCHANGED <<larg, lret, lcalls>>
    /\ UNCHANGED apiVars
    /\ UNCHANGED redisVars
    /\ UNCHANGED workerVars

NewNext ==
    \E id \in NewIds, to \in NewTos, text \in NewTexts, channel \in NewChannels :
        NewMessage(id, to, text, channel)

NewSpec == Init /\ [][NewNext]_vars

\* ------------------------------------------------------- stored retry times
\* the workers never store a retry time themselves; here a client does:
\* update_message(msg) for a stored message, with msg.retry_after set as
\* send_worker(msg) of routing_state_machine.py sets it (time.time() + 30).
\* No time passes: a stored retry time lies in the future
RetryTime == "ts+30"

ClientDefer(id) ==
    /\ GetHasRecord(store[id])
    /\ store' = [store EXCEPT ![id] =
                    HSet(@, UpdateMapping([GetMessage(@) EXCEPT
                                               !.retry_after = RetryTime]))]
    /\ UNCHANGED <<qsend, qconfirm, locks, envVars>>
    /\ UNCHANGED workerVars
    /\ UNCHANGED libVars

DeferNext ==
    \/ EnqueueStep
    \/ \E id \in MsgIds : ClientDefer(id)
    \/ \E w \in SendWorkers : SendWorkerStep(w)
    \/ \E w \in ConfirmWorkers : ConfirmWorkerStep(w)
    \/ \E w \in Workers : Skip(w)

DeferSpec == Init /\ [][DeferNext]_vars

\* ------------------------------------------------------- rerouting by hand
\* the send worker never gets as far as fallback_worker (its "fallback"
\* event is always rejected); here a client reroutes a message that is on no
\* list: msg = get_message(id), the events that lead to FALLBACK, then
\* fallback_worker(msg)
RECURSIVE Fire(_, _)
Fire(msg, events) ==
    IF events = << >> THEN msg
    ELSE Fire(TransitionMsg(msg, Head(events)), Tail(events))

ClientFallback(id) ==
    /\ GetFound(store[id], id \in pastDeadline)
    /\ ~InList(qsend, id)
    /\ ~InList(qconfirm, id)
    /\ \A w \in Workers : wid[w] # id
    /\ LET msg == Fire(GetMessage(store[id]), <<"send", "error", "fallback">>)
           fb == FallbackWorker(msg)
       IN /\ store' = [store EXCEPT ![id] = ApplyUpdates(@, fb.updates)]
          /\ qsend' = IF fb.requeue THEN LPush(qsend, id) ELSE qsend
          /\ lmsg' = fb.msg
          /\ lop' = "fallback_worker"
    /\ UNCHANGED <<qconfirm, locks, envVars>>
    /\ UNCHANGED <<larg, lret, lcalls>>
    /\ UNCHANGED apiVars
    /\ UNCHANGED workerVars

RerouteNext ==
    \/ EnqueueStep
    \/ \E id \in MsgIds : ClientFallback(id)
    \/ \E w \in SendWorkers : SendWorkerStep(w)
    \/ \E w \in ConfirmWorkers : ConfirmWorkerStep(w)
    \/ \E w \in Workers : Skip(w)

RerouteSpec == Init /\ [][RerouteNext]_vars

\* ------------------------------------------------------- repeated hand-off
\* LPUSH queue:confirm <id> once more for a stored message: the list is fed
\* by plain LPUSH commands (send_worker line 283), which a Redis client can
\* repeat for any id; the confirmation worker then meets a message that is
\* not SENT
RequeueConfirm(id) ==
    /\ store[id] # NoHash
    /\ ~InList(qconfirm, id)
    /\ \A w \in ConfirmWorkers : wid[w] # id
    /\ qconfirm' = LPush(qconfirm, id)
    /\ UNCHANGED <<store, qsend, locks, envVars>>
    /\ UNCHANGED workerVars
    /\ UNCHANGED libVars

RecheckNext ==
    \/ EnqueueStep
    \/ \E id \in MsgIds : RequeueConfirm(id)
    \/ \E w \in SendWorkers : SendWorkerStep(w)
    \/ \E w \in ConfirmWorkers : ConfirmWorkerStep(w)
    \/ \E w \in Workers : Skip(w)

RecheckSpec == Init /\ [][RecheckNext]_vars

\* ------------------------------------------------------- task cancellation
\* Task.cancel() raises asyncio.CancelledError at the await the worker is
\* suspended in, or resumes from. CancelledError is not an Exception: inside
\* the try block of a message only the finally clause handles it, and the
\* `except asyncio.CancelledError: break` of the loop ends the worker. The
\* Redis command of an interrupted await is taken not to have been sent;
\* for the DEL of release_lock both outcomes are kept
Running(w) == pc[w] \notin {"crashed", "cancelled", "stopped"}

Cancel(w) ==
    /\ Running(w)
    /\ IF Processing(w) /\ pc[w] # "release"
       THEN /\ pc' = [pc EXCEPT ![w] = "cancelled"]
            /\ UNCHANGED locks
       ELSE /\ pc' = [pc EXCEPT ![w] = "stopped"]
            /\ \E deleted \in BOOLEAN :
                  locks' = IF pc[w] = "release" /\ deleted
                           THEN ReleaseLock(locks, wid[w]) ELSE locks
    /\ UNCHANGED <<store, qsend, qconfirm, envVars, wid, wmsg, crashes>>
    /\ UNCHANGED libVars

\* finally: release_lock, then `except asyncio.CancelledError: break`
CancelFinally(w) ==
    /\ pc[w] = "cancelled"
    /\ locks' = ReleaseLock(locks, wid[w])
    /\ pc' = [pc EXCEPT ![w] = "stopped"]
    /\ UNCHANGED <<store, qsend, qconfirm, envVars, wid, wmsg, crashes>>
    /\ UNCHANGED libVars

\* the Redis engine whose worker tasks can be cancelled
StopNext ==
    \/ EnqueueStep
    \/ \E w \in SendWorkers : SendWorkerStep(w)
    \/ \E w \in ConfirmWorkers : ConfirmWorkerStep(w)
    \/ \E w \in Workers : Skip(w)
    \/ \E w \in Workers : Cancel(w)
    \/ \E w \in Workers : CancelFinally(w)

StopSpec == Init /\ [][StopNext]_vars

\* ------------------------------------------------- routing one contact
\* one contact of the directory; clients route messages for it with
\* process_message and post requests for it, send workers run
RouteInit ==
    /\ RedisInit
    /\ lmsg = Message(Nil)
    /\ lop = Nil
    /\ larg = Nil
    /\ lret = FALSE
    /\ lcalls = 0
    /\ resp = NoResponse
    /\ contact \in Contacts \cup {NoContact}
    /\ sel = NoSelection

\* process_message(Message(id, to, text, channel), contact)
RouteProcessMessage(channel) ==
    LibCall("process_message", channel,
            ProcessMessageMsg(Message(channel), contact),
            ProcessMessageRet(Message(channel), contact))

\* POST /send whose lookup finds the contact
RouteSendStep ==
    \E req \in ApiRequests, id \in MsgIds : ApiSend(req, contact, id)

RouteNext ==
    \/ \E channel \in LibChannels : RouteProcessMessage(channel)
    \/ RouteSendStep
    \/ \E w \in SendWorkers : SendWorkerStep(w)

RouteSpec == RouteInit /\ [][RouteNext]_vars

\* ================================================================ claims
\* the workers processing message id
ProcessingId(id) == {w \in Workers : Processing(w) /\ wid[w] = id}

\* C1 (as claimed): at every moment at most one worker is processing a
\* message id, lock TTL expiries included
C1_AtMostOneProcessing ==
    \A id \in MsgIds : Cardinality(ProcessingId(id)) <= 1

\* C1 (amended): at every moment at most one worker is processing a message
\* id, as long as no lock on that id has run out while a worker was still
\* processing it
C1_AtMostOneProcessingUnlessExpired ==
    \A id \in MsgIds \ expiredInFlight : Cardinality(ProcessingId(id)) <= 1

\* C1 witness: one worker processes an id whose lock has never run out in
\* flight, and a second worker that popped the same id was refused the lock
C1_Witness ==
    \E id \in MsgIds \ expiredInFlight :
        \E w1, w2 \in Workers :
            /\ w1 # w2
            /\ ProcessingId(id) = {w1}
            /\ pc[w2] = "skip"
            /\ wid[w2] = id

\* the step is worker w returning from acquire_lock
LockReturns(w) == pc[w] = "lock" /\ pc'[w] # "lock"

\* the step is worker w going on after a refused lock
SkipReturns(w) == pc[w] = "skip" /\ pc'[w] # "skip"

\* C2: of the acquire_lock calls on one id, a call succeeds exactly when the
\* key is absent and then sets it, so that the other worker's call on that id
\* is refused; the refused worker changes no record, no list and no lock key
\* in that cycle and goes back to polling
C2_OneAcquireSucceeds ==
    [][\A w \in Workers :
        /\ LockReturns(w) =>
              /\ (pc'[w] = "get") <=> (wid[w] \notin locks)
              /\ pc'[w] = "get" =>
                    /\ wid[w] \in locks'
                    /\ \A v \in Workers \ {w} :
                          wid[v] = wid[w] => ~Acquired(locks', wid[v])
              /\ pc'[w] # "get" =>
                    /\ pc'[w] = "skip"
                    /\ UNCHANGED <<store, qsend, qconfirm, locks>>
        /\ SkipReturns(w) =>
              /\ pc'[w] = "poll"
              /\ UNCHANGED <<store, qsend, qconfirm, locks>>
      ]_vars

\* C2 witness: two workers popped the same id; one holds its lock and is
\* processing, the other's acquire_lock was refused while the key is set
C2_Witness ==
    \E w, v \in Workers :
        /\ w # v
        /\ pc[w] = "skip"
        /\ wid[v] = wid[w]
        /\ Processing(v)
        /\ wid[w] \in locks

\* the transition table as the specification prints it: <<from, event, to>>
TableRows ==
    { <<DRAFTED, "route", ROUTING>>,
      <<ROUTING, "blocked", BLOCKED>>,
      <<ROUTING, "ok", QUEUED>>,
      <<QUEUED, "send", SENDING>>,
      <<SENDING, "success", SENT>>,
      <<SENDING, "error", FAILED>>,
      <<SENT, "confirm", CONFIRMED>>,
      <<SENT, "timeout", CONFIRMED>>,
      <<FAILED, "retry", QUEUED>>,
      <<FAILED, "fallback", FALLBACK>>,
      <<FALLBACK, "reroute", QUEUED>> }

\* the step is a call of transition(msg, event)
TransitionCalled == lcalls' = lcalls + 1 /\ lop' = "transition"

\* C3: transition(msg, e) on a message in state s sets the state to the
\* table's target and returns True when (s, e) is a row of the table, and
\* otherwise leaves the state as it is and returns False
C3_TransitionFollowsTable ==
    [][TransitionCalled =>
          IF \E row \in TableRows : row[1] = lmsg.state /\ row[2] = larg'
          THEN /\ lret' = TRUE
               /\ <<lmsg.state, larg', lmsg'.state>> \in TableRows
          ELSE /\ lret' = FALSE
               /\ lmsg'.state = lmsg.state
      ]_vars

\* C3 witness: route, ok, send, success have taken a new message from DRAFTED
\* to SENT in four accepted calls
C3_Witness ==
    /\ lcalls = 4
    /\ lop = "transition"
    /\ larg = "success"
    /\ lret = TRUE
    /\ lmsg.state = SENT
    /\ lmsg.attempts = 0
    /\ lmsg.last_error = Nil

\* the send worker has finished a cycle whose send attempt failed
SendFailedCycle(w) ==
    /\ w \in SendWorkers
    /\ pc[w] = "release"
    /\ wmsg[w].last_error = "err"

\* C4 (as claimed): when a send attempt has failed and the incremented
\* attempts is below max_attempts, the send worker has moved the message to
\* QUEUED, persisted it and put its id back on the send list
C4_FailedSendIsRequeued ==
    \A w \in SendWorkers :
        (SendFailedCycle(w) /\ wmsg[w].attempts < wmsg[w].max_attempts) =>
            /\ wmsg[w].state = QUEUED
            /\ InList(qsend, wid[w])

\* the stored record of id is there
Stored(id) == Has(store[id], "id")

\* every send on the stored channel of id raises: send_via_channel does not
\* know the channel
ChannelAlwaysFails(id) ==
    Stored(id) /\ SendRaises([channel |-> store[id].channel], TRUE)

\* the fallback chain enqueue_message stored for id
StoredFallbacks(id) ==
    IF store[id].fallback_channels = << >> THEN << >>
    ELSE SplitComma(store[id].fallback_channels, "")

\* C5 (as claimed): a message whose sends keep failing until attempts reaches
\* max_attempts, with a non-empty fallback chain, is rerouted: its channel is
\* the first fallback, attempts is 0, its state is QUEUED and its id is back
\* on the send list
C5_ExhaustedIsRerouted ==
    \A id \in MsgIds : \A first \in KnownChannels :
        ( /\ ChannelAlwaysFails(id)
          /\ StoredFallbacks(id) # << >>
          /\ Head(StoredFallbacks(id)) = first )
        ~> ( /\ Stored(id)
             /\ store[id].channel = first
             /\ store[id].attempts = 0
             /\ store[id].state = QUEUED
             /\ InList(qsend, id) )

\* C6 (as claimed): a message whose sends keep failing until attempts reaches
\* max_attempts, with an empty fallback chain, reaches the persisted state
\* FAILED
C6_ExhaustedIsFailed ==
    \A id \in MsgIds :
        (ChannelAlwaysFails(id) /\ StoredFallbacks(id) = << >>)
        ~> (Stored(id) /\ store[id].state = FAILED)

\* C7 (as claimed): with fair workers and no expiry, every message that was
\* sent (persisted SENT) eventually is CONFIRMED
C7_SentIsConfirmed ==
    \A id \in MsgIds :
        (Stored(id) /\ store[id].state = SENT)
        ~> (Stored(id) /\ store[id].state = CONFIRMED)

\* C8 (as claimed): a worker that dequeued an id and was refused its lock has
\* abandoned the cycle with the id still queued on the list it was popped from
C8_RefusedIdStaysQueued ==
    \A w \in Workers :
        pc[w] = "skip" =>
            IF w \in SendWorkers THEN InList(qsend, wid[w])
            ELSE InList(qconfirm, wid[w])

\* the send worker w crashed holding id before the send went through, and the
\* lock it held has run out since
CrashedBeforeSend(w, id) ==
    /\ w \in SendWorkers
    /\ pc[w] = "crashed"
    /\ wid[w] = id
    /\ id \notin locks
    /\ Stored(id)
    /\ store[id].state \in {QUEUED, SENDING}
    /\ store[id].attempts = 0

\* C9 (as claimed): once the lock of a crashed send worker has run out, the
\* message it held can be picked up again: its id is on the send list, or
\* another worker is processing it
C9_CrashedMessageCanBeRetried ==
    \A id \in MsgIds : \A w \in SendWorkers :
        CrashedBeforeSend(w, id) =>
            \/ InList(qsend, id)
            \/ \E v \in Workers \ {w} : Processing(v) /\ wid[v] = id

\* the confirmation worker w finishes its receipt check
ConfirmPassEnds(w) ==
    w \in ConfirmWorkers /\ pc[w] = "check" /\ pc'[w] = "release"

\* C10: a confirmation pass over a message loaded in state SENT ends with the
\* message CONFIRMED, in the worker and in the store, whichever way the receipt
\* check went; no confirmation pass makes a message FAILED
C10_ConfirmPassEndsConfirmed ==
    [][ \A w \in ConfirmWorkers :
            ConfirmPassEnds(w) =>
                /\ wmsg[w].state = SENT =>
                       /\ wmsg'[w].state = CONFIRMED
                       /\ Has(store'[wid[w]], "state")
                       /\ store'[wid[w]].state = CONFIRMED
                /\ wmsg'[w].state = FAILED => wmsg[w].state = FAILED
                /\ \A id \in MsgIds :
                       (Has(store'[id], "state") /\ store'[id].state = FAILED)
                           => (Has(store[id], "state") /\ store[id].state = FAILED)
      ]_vars

\* a confirmation pass has just turned a SENT message into CONFIRMED
C10_Witness ==
    \E w \in ConfirmWorkers :
        /\ pc[w] = "release"
        /\ wmsg[w].state = CONFIRMED
        /\ wmsg[w].confirmed_at = Now
        /\ Has(store[wid[w]], "state")
        /\ store[wid[w]].state = CONFIRMED

\* C11 (as claimed): BLOCKED and CONFIRMED are terminal: no call on a message
\* in one of these states (transition with any event, send_worker, fallback)
\* changes its state
C11_TerminalStatesStay ==
    [][ lmsg.state \in {BLOCKED, CONFIRMED} => lmsg'.state = lmsg.state ]_vars

\* the worker w calls get_message and gets its answer
ReadsMessage(w) == pc[w] = "get" /\ pc'[w] \notin {"get", "crashed"}

\* C12: a get_message of an id whose expires_at has passed returns None (the
\* worker goes straight to its finally with no message); when the record was
\* still there the read deletes it, and after the read there is no record a
\* later read could return
C12_ExpiredIsNeverReturned ==
    [][ \A w \in Workers :
            (ReadsMessage(w) /\ wid[w] \in pastDeadline) =>
                /\ pc'[w] = "release"
                /\ wmsg'[w] = wmsg[w]
                /\ GetHasRecord(store[wid[w]]) => store'[wid[w]] = NoHash
                /\ ~GetHasRecord(store'[wid[w]])
      ]_vars

\* a worker has read an expired message, got None, and the record is gone
C12_Witness ==
    \E w \in Workers :
        /\ pc[w] = "release"
        /\ wid[w] \in pastDeadline
        /\ wmsg[w] = Message(Nil)
        /\ store[wid[w]] = NoHash

\* the send worker w reloads the message it dequeued and gets a Message
Reloads(w) ==
    w \in SendWorkers /\ pc[w] = "get" /\ pc'[w] \in {"persist_sending", "send"}

\* C13 (as claimed): the message a worker reloads after POST /send enqueued it
\* equals the message that was enqueued in id, recipient, text, channel,
\* priority and metadata
C13_RoundTrip ==
    [][ \A w \in SendWorkers :
            (Reloads(w) /\ resp.status = "enqueued") =>
                /\ wmsg'[w].id = lmsg.id
                /\ wmsg'[w].to = lmsg.to
                /\ wmsg'[w].text = lmsg.text
                /\ wmsg'[w].channel = resp.channel_used
                /\ wmsg'[w].priority = lmsg.priority
                /\ wmsg'[w].metadata = lmsg.metadata
      ]_vars

\* the send worker w takes an id from the send list
Dequeues(w) == w \in SendWorkers /\ pc[w] = "poll" /\ pc'[w] = "lock"

\* ids on the send list after the step
WaitingAfter == {qsend'[i] : i \in 1..Len(qsend')}

\* the priority the message was enqueued with
PriorityOf(id) == store[id].priority

\* C14 (as claimed): an expedited message (priority > 1) is dequeued before
\* every normal-priority message that was waiting when it was enqueued: no
\* normal-priority id is dequeued while an expedited id enqueued after it is
\* still on the send list (ids are numbered in enqueue order)
C14_ExpeditedGoesFirst ==
    [][ \A w \in SendWorkers :
            (Dequeues(w) /\ PriorityOf(wid'[w]) <= 1) =>
                \A e \in WaitingAfter : PriorityOf(e) > 1 => e < wid'[w]
      ]_vars

\* C15 (as claimed): normal-priority messages leave the send list in the
\* order in which they were enqueued: the normal-priority id dequeued is
\* older than every normal-priority id still waiting
C15_NormalIsFifo ==
    [][ \A w \in SendWorkers :
            (Dequeues(w) /\ PriorityOf(wid'[w]) <= 1) =>
                \A j \in WaitingAfter : PriorityOf(j) <= 1 => wid'[w] < j
      ]_vars

\* C16: a worker that acquired a lock leaves its try block only through the
\* finally clause: unless its process is killed, the step that takes it out
\* of processing is release_lock, after which the lock key is gone and the
\* worker is at its next poll. This holds on every path: message absent,
\* send success, send failure, an exception raised inside the try block
C16_LockReleasedBeforePoll ==
    [][ \A w \in Workers :
            (Processing(w) /\ ~Processing(w)') =>
                \/ pc'[w] = "crashed"
                \/ /\ pc[w] = "release"
                   /\ pc'[w] = "poll"
                   /\ wid[w] \notin locks'
      ]_vars

\* a send failed, and the worker has released the lock and polls again
C16_Witness ==
    \E id \in MsgIds :
        /\ Stored(id)
        /\ Has(store[id], "last_error")
        /\ store[id].last_error = "err"
        /\ id \notin locks
        /\ \A w \in Workers : pc[w] = "poll"

\* the contact is capable of the channel
Capable(c, ch) ==
    CASE ch = "imessage" -> c.imessage_capable
      [] ch = "rcs" -> c.rcs_capable
      [] ch = "email" -> c.email
      [] ch = "sms" -> c.phone
      [] OTHER -> FALSE

\* rich-chat > rich-messaging > email > basic-messaging
Rank(ch) ==
    CASE ch = "imessage" -> 1
      [] ch = "rcs" -> 2
      [] ch = "email" -> 3
      [] ch = "sms" -> 4
      [] OTHER -> 5

HasCapability(c) == \E ch \in ChannelPreference : Capable(c, ch)

\* the primary channel the selection rule asks for
ExpectedPrimary(c) ==
    IF c = NoContact THEN "sms"
    ELSE IF c.preferred_channel # Nil /\ Capable(c, c.preferred_channel)
    THEN c.preferred_channel
    ELSE IF HasCapability(c)
    THEN CHOOSE ch \in ChannelPreference :
            /\ Capable(c, ch)
            /\ \A other \in ChannelPreference :
                   Capable(c, other) => Rank(ch) <= Rank(other)
    ELSE "sms"

\* the selector of the directory layer, or of the endpoint, has answered
SelectorAnswered == sel.op \in {"for_contact", "send_message"}

\* C17 (as claimed): the primary channel is the preferred channel when the
\* contact is capable of it, else the highest-priority channel the contact is
\* capable of, else sms
C17_PrimaryChannel ==
    SelectorAnswered => sel.primary = ExpectedPrimary(contact)

\* C18 (as claimed): the fallback chain never contains the primary channel
C18_FallbacksExcludePrimary ==
    SelectorAnswered => ~InSeq(sel.fallbacks, sel.primary)

\* the chain without a preferred channel pinned to its front
Unpinned(c, chain) ==
    IF chain # << >> /\ c.preferred_channel # Nil /\ Head(chain) = c.preferred_channel
    THEN Tail(chain) ELSE chain

\* C19 (as claimed): the fallback chain of a contact is duplicate-free, lists
\* only channels the contact is capable of, and is in priority order apart
\* from a preferred channel pinned to the front
C19_FallbackChainShape ==
    (SelectorAnswered /\ contact # NoContact) =>
        LET chain == sel.fallbacks
            rest == Unpinned(contact, chain)
        IN /\ \A i, j \in 1..Len(chain) : chain[i] = chain[j] => i = j
           /\ \A i \in 1..Len(chain) : Capable(contact, chain[i])
           /\ \A i, j \in 1..Len(rest) : i < j => Rank(rest[i]) < Rank(rest[j])

\* no capability information: no contact, or a contact without any capability
\* and without a preferred channel
NoCapabilityInformation(c) ==
    c = NoContact \/ (~HasCapability(c) /\ c.preferred_channel = Nil)

\* C20 (as claimed): without capability information the primary channel is
\* sms and the fallback chain is empty
C20_DefaultsWithoutCapabilities ==
    (SelectorAnswered /\ NoCapabilityInformation(contact)) =>
        sel.primary = "sms" /\ sel.fallbacks = << >>

\* the policy blocks the contact: it has no channel at all, has opted out,
\* or is blocked
PolicyBlocked(c) ==
    c # NoContact /\ (~HasCapability(c) \/ ~c.opt_in \/ c.blocked)

\* the step is a call of process_message on a new message
ProcessMessageCalled == lcalls' = lcalls + 1 /\ lop' = "process_message"

\* nothing was ever enqueued, and no worker holds a message
NeverEnqueued ==
    /\ qsend = << >>
    /\ qconfirm = << >>
    /\ issued = {}
    /\ \A id \in MsgIds : store[id] = NoHash
    /\ \A w \in Workers : pc[w] = "poll" /\ wid[w] = NoMsg

\* C21: process_message on a DRAFTED message for a contact the policy blocks
\* ends in BLOCKED and returns False; POST /send for such a contact answers
\* "blocked"; and nothing for such a contact is ever enqueued, so that no
\* worker ever sends or retries it
C21_PolicyBlock ==
    [][ PolicyBlocked(contact) =>
            /\ ProcessMessageCalled =>
                   lmsg'.state = BLOCKED /\ lret' = FALSE
            /\ resp' # resp =>
                   /\ resp'.status \in {"blocked", "error", "validation_failed"}
                   /\ lmsg' # lmsg => lmsg'.state = BLOCKED
            /\ NeverEnqueued'
      ]_vars

\* a message was routed for an opted-in contact without any channel and is
\* BLOCKED, and a request for that contact was answered "blocked"
C21_Witness ==
    /\ PolicyBlocked(contact)
    /\ contact.opt_in
    /\ ~contact.blocked
    /\ lop = "process_message"
    /\ lmsg.state = BLOCKED
    /\ lret = FALSE
    /\ resp.status = "blocked"
    /\ NeverEnqueued

\* the stop signal takes effect in worker w
StopTakesEffect(w) ==
    Running(w) /\ pc'[w] \in {"cancelled", "stopped"}

\* C22 (as claimed): a stop signal takes effect only between queue polls: a
\* worker that has dequeued an id is never stopped before the end of that
\* cycle, and a worker that exits holds no lock
C22_StopOnlyBetweenPolls ==
    [][ \A w \in Workers :
            /\ StopTakesEffect(w) => pc[w] = "poll"
            /\ pc'[w] = "stopped" => wid[w] \notin locks'
      ]_vars

\* C23: a newly created Message is in state DRAFTED with attempts = 0,
\* max_attempts = 3 and an empty fallback chain, whatever its id, recipient,
\* text and channel
C23_NewMessageIsDrafted ==
    lop = "Message" =>
        /\ lmsg.state = DRAFTED
        /\ lmsg.attempts = 0
        /\ lmsg.max_attempts = 3
        /\ lmsg.fallback_channels = << >>

\* a Message was created for a phone number with a text and no channel
C23_Witness ==
    /\ lop = "Message"
    /\ lmsg.id = 1
    /\ lmsg.to = "+15550100"
    /\ lmsg.text = "hi"
    /\ lmsg.channel = Nil
    /\ lmsg.state = DRAFTED

\* the stored record of id has a retry time
Deferred(id) ==
    /\ Has(store[id], "id")
    /\ Has(store[id], "retry_after")
    /\ store[id].retry_after = RetryTime

\* C24 (as claimed): a send worker that loads a message whose stored
\* retry_after is still in the future does not send it and does not change
\* it: it pushes the id back onto the send list and goes to release the lock
C24_DeferredRetry ==
    [][ \A w \in SendWorkers :
            (ReadsMessage(w) /\ Deferred(wid[w])) =>
                /\ pc'[w] = "release"
                /\ store' = store
                /\ InList(qsend', wid[w])
      ]_vars

\* C25 (as claimed): attempts never exceeds max_attempts, whatever sequence of
\* send attempts, retries and fallbacks is applied to a message
C25_AttemptsWithinCeiling ==
    lmsg.attempts <= lmsg.max_attempts

\* the pairs <<from, to>> the transition table allows
TableEdges == { <<row[1], row[3]>> : row \in TableRows }

\* C26 (as claimed): every state change of a message, by whichever operation
\* (transition, send_worker, fallback), is an edge of the transition table
C26_StateChangesAreEdges ==
    [][ lmsg'.state # lmsg.state =>
            <<lmsg.state, lmsg'.state>> \in TableEdges ]_vars

\* list a is a suffix of list b
IsSuffix(a, b) ==
    Len(a) <= Len(b) /\ a = SubSeq(b, Len(b) - Len(a) + 1, Len(b))

\* the message w reloads is the one fallback_worker rerouted last
ReloadsRerouted(w) ==
    Reloads(w) /\ lop = "fallback_worker" /\ lmsg.id = wid[w]

\* C27 (as claimed): the fallback chain never regrows: the chain of a
\* message reloaded after a reroute is a suffix of the chain the reroute left,
\* and the channel popped for the reroute is not in it
C27_FallbackChainNeverRegrows ==
    [][ \A w \in SendWorkers :
            ReloadsRerouted(w) =>
                /\ IsSuffix(wmsg'[w].fallback_channels, lmsg.fallback_channels)
                /\ ~InSeq(wmsg'[w].fallback_channels, lmsg.channel)
      ]_vars

\* the states reachable from QUEUED onward
FromQueuedOn == {QUEUED, SENDING, SENT, CONFIRMED, FAILED, FALLBACK}

\* C28 (as claimed): a message in QUEUED or a state after it has a channel
\* that is neither null nor empty
C28_ChannelSetFromQueuedOn ==
    lmsg.state \in FromQueuedOn => lmsg.channel \notin {Nil, ""}

\* C29 (as claimed): every state change is persisted before the id is put
\* on a list: an id on the confirm list has the persisted state SENT or
\* CONFIRMED, and an id on the send list has the persisted state QUEUED
C29_ListedIdsArePersisted ==
    \A id \in MsgIds :
        /\ InList(qconfirm, id) =>
               Has(store[id], "state") /\ store[id].state \in {SENT, CONFIRMED}
        /\ InList(qsend, id) =>
               Has(store[id], "state") /\ store[id].state = QUEUED

\* C29 (amended): the same, as long as the record of the message is there:
\* expiry removes the record of a message and leaves its id on the list
C29_ListedIdsArePersistedUnlessExpired ==
    \A id \in MsgIds :
        /\ (InList(qconfirm, id) /\ Has(store[id], "state")) =>
               store[id].state \in {SENT, CONFIRMED}
        /\ (InList(qsend, id) /\ Has(store[id], "state")) =>
               store[id].state = QUEUED

\* a send worker has put the id of a message on the confirm list, and the
\* record says SENT
C29_Witness ==
    \E id \in MsgIds : \E w \in SendWorkers :
        /\ InList(qconfirm, id)
        /\ wid[w] = id
        /\ pc[w] = "release"
        /\ Has(store[id], "state")
        /\ store[id].state = SENT

\* the stored record of id has a value in the timestamp field
Stamped(hash, field) == Has(hash, field) /\ hash[field] \notin {"", Nil}

\* C30 (as claimed): sent_at and confirmed_at are set once: a stored
\* timestamp keeps its value for as long as the record of the message exists,
\* in particular through the confirmation pass
C30_TimestampsAreKept ==
    [][ \A id \in MsgIds : \A field \in {"sent_at", "confirmed_at"} :
            (Stamped(store[id], field) /\ store'[id] # NoHash) =>
                /\ Has(store'[id], field)
                /\ store'[id][field] = store[id][field]
      ]_vars

\* the retry time claimed after the k-th failure: the failure time + 30 * k
ExpectedRetryAfter(k) ==
    CASE k = 1 -> "ts+30"
      [] k = 2 -> "ts+60"
      [] OTHER -> "ts+30k"

\* C31 (as claimed): a failed send attempt that leaves attempts = k below
\* max_attempts sets retry_after to the time of the failure plus 30 * k
C31_LinearBackoff ==
    (lop = "send_worker" /\ ~lret /\ lmsg.attempts \in 1..(lmsg.max_attempts - 1)) =>
        lmsg.retry_after = ExpectedRetryAfter(lmsg.attempts)

\* the record of id is there and its expires_at has passed
ExpiredRecord(id) ==
    store[id] # NoHash /\ Has(store[id], "expires_at") /\ id \in pastDeadline

\* the step is the sweeper's: a record changes while no worker moves and no
\* message is enqueued
SweeperActs == store' # store /\ UNCHANGED <<pc, issued>>

\* C32: the sweeper deletes the record of every id whose expires_at has
\* passed, whatever the state of the message and whether or not the id is on
\* a list or locked (its step for such a record is always possible), and a
\* sweeper step changes nothing else: a record whose expires_at has not passed,
\* the lists and the lock keys stay as they are
C32_SweeperDeletesExpiredOnly ==
    [][ /\ \A id \in MsgIds : ExpiredRecord(id) => ENABLED Sweep(id)
        /\ SweeperActs =>
              /\ \A id \in MsgIds :
                    store'[id] # store[id] =>
                        ExpiredRecord(id) /\ store'[id] = NoHash
              /\ UNCHANGED <<qsend, qconfirm, locks>>
      ]_vars

\* the sweeper has deleted the record of a message while a send worker that
\* had loaded it was processing it under its lock
C32_Witness ==
    \E id \in MsgIds : \E w \in SendWorkers :
        /\ store[id] = NoHash
        /\ id \in pastDeadline
        /\ id \in locks
        /\ wid[w] = id
        /\ wmsg[w].id = id
        /\ pc[w] \in {"persist_sending", "send", "persist_sent"}

\* C33 (as claimed): once the record of an enqueued message has been deleted
\* as expired (by get_message or by the sweeper), no record exists under its
\* id afterwards: no worker step creates one again
C33_DeletedStaysDeleted ==
    [][ \A id \in MsgIds :
            (id \in issued /\ store[id] = NoHash) => store'[id] = NoHash ]_vars

\* worker w ends its cycle with release_lock and the DEL removes a lock key
ReleaseDeletes(w) ==
    pc[w] = "release" /\ pc'[w] = "poll" /\ wid[w] \in locks /\ wid[w] \notin locks'

\* C34 (as claimed): release_lock only removes a lock of the releasing worker.
\* A confirmation worker can take the lock on an id a send worker is still
\* working on only after the send worker's lock has run out, so a lock key
\* that is present while the confirmation worker is processing the id is the
\* confirmation worker's: the release of the send worker never deletes it
C34_ReleaseOnlyOwnLock ==
    [][ \A w \in SendWorkers :
            ReleaseDeletes(w) =>
                ~ \E c \in ConfirmWorkers : Processing(c) /\ wid[c] = wid[w] ]_vars

\* C35 (as claimed): the channel send is invoked only for a message that
\* transition(msg, "send") has just taken from QUEUED to SENDING; a message
\* handed to the send worker in any other state is not sent (again). A call
\* of send_worker that returns True has invoked send_via_channel and the
\* adapter has delivered the message
C35_SendsOnlyFromQueued ==
    [][ (lcalls' # lcalls /\ lop' = "send_worker" /\ lret') =>
            lmsg.state = QUEUED ]_vars

\* how often x occurs on a list
Occurrences(list, x) == Cardinality({i \in 1..Len(list) : list[i] = x})

\* C36: each message id occurs at most once in total on queue:send and
\* queue:confirm
C36_ListedAtMostOnce ==
    \A id \in MsgIds : Occurrences(qsend, id) + Occurrences(qconfirm, id) <= 1

\* the id has been taken from queue:send, sent, and handed to queue:confirm,
\* where it is the only occurrence
C36_Witness ==
    \E id \in MsgIds :
        /\ Occurrences(qconfirm, id) = 1
        /\ Occurrences(qsend, id) = 0
        /\ store[id] # NoHash
        /\ store[id].state = SENT
\* C37 (as claimed): the message_id that POST /send returns on success is an
\* id under which enqueue_message stored a record
C37_ReturnedIdIsStoredId ==
    resp.status = "enqueued" => resp.message_id \in issued
\* C38: a message becomes CONFIRMED only from SENT, and becomes SENT only
\* from SENDING (inside send_worker: from QUEUED through SENDING); no message
\* goes from QUEUED, SENDING, FAILED or FALLBACK directly to CONFIRMED
C38_ConfirmedOnlyAfterSent ==
    [][ /\ (lmsg'.state = CONFIRMED /\ lmsg.state # CONFIRMED) =>
               lmsg.state = SENT
        /\ (lmsg'.state = SENT /\ lmsg.state # SENT) =>
               \/ lmsg.state = SENDING
               \/ lop' = "send_worker" /\ lmsg.state = QUEUED
      ]_vars

\* a confirm or timeout event has just taken a sent message to CONFIRMED
C38_Witness ==
    /\ lmsg.state = CONFIRMED
    /\ lmsg.sent_at = Now
    /\ lop = "transition"
    /\ larg \in {"confirm", "timeout"}
    /\ lret
\* C39: a transition that is rejected (transition() returns False) changes
\* nothing in the message: state, sent_at, confirmed_at, attempts, channel,
\* fallback_channels and last_error are as before
C39_RejectedTransitionChangesNothing ==
    [][ (TransitionCalled /\ ~lret') => lmsg' = lmsg ]_vars

\* a send event has just been rejected for a message that is already sent
C39_Witness ==
    /\ lop = "transition"
    /\ larg = "send"
    /\ ~lret
    /\ lmsg.state = SENT
    /\ lmsg.sent_at = Now
\* confirmation worker c takes a step of a pass over a message it has loaded
\* in a state other than SENT
PassOverUnsent(c) ==
    /\ pc'[c] # pc[c]
    /\ wmsg[c].id = wid[c]
    /\ \/ pc[c] = "check" /\ wmsg[c].state # SENT
       \/ pc[c] = "release" /\ wmsg[c].state \notin {SENT, CONFIRMED}

\* C40: a confirmation pass over a message whose state is not SENT changes
\* neither the stored record nor queue:send nor queue:confirm, and ends with
\* the release of the lock
C40_UnsentPassChangesNothing ==
    [][ \A c \in ConfirmWorkers :
            PassOverUnsent(c) =>
                /\ UNCHANGED <<store, qsend, qconfirm>>
                /\ pc[c] = "check" => pc'[c] = "release"
                /\ pc[c] = "release" => (pc'[c] = "poll" /\ wid[c] \notin locks')
      ]_vars

\* the confirmation worker has checked a message that is not SENT, the stored
\* record is as it was loaded, and the release of the lock is next
C40_Witness ==
    \E c \in ConfirmWorkers :
        /\ pc[c] = "release"
        /\ wmsg[c].id = wid[c]
        /\ wmsg[c].state \notin {SENT, CONFIRMED}
        /\ store[wid[c]] # NoHash
        /\ store[wid[c]].state = wmsg[c].state
        /\ wid[c] \in locks
====
